---- MODULE Spec2Model ----
(***************************************************************************)
(* Model of Plane_carbon_emissions.py: the unit-aware computation of the   *)
(* CO2 emissions of a list of planes, the per-plane console comparison and *)
(* the two bar charts.                                                     *)
(*                                                                         *)
(* Magnitudes are exact non-negative rationals <<num, den>> in lowest      *)
(* terms (the script computes them in binary floating point).  A quantity  *)
(* is a magnitude with a units container, as in pint: a map from unit name *)
(* to exponent.  A bare Python number behaves in every operation of the    *)
(* script like a quantity with the empty units container and is modelled   *)
(* as one.                                                                 *)
(***************************************************************************)
EXTENDS Integers, Sequences, FiniteSets, TLC

VARIABLES planes, CO2_TONS_YEAR_DRIVING, plane_emissions, pc, i, console,
          charts, exc, events, args, ret

vars == <<planes, CO2_TONS_YEAR_DRIVING, plane_emissions, pc, i, console,
          charts, exc, events, args, ret>>

(***************************************************************************)
(* Bounds of the model.                                                    *)
(***************************************************************************)
MaxPlanes == 2
MaxMag == 4
MaxScale == 3
MaxNum == 14
MaxDen == 13

(***************************************************************************)
(* Magnitudes: rational arithmetic.                                        *)
(***************************************************************************)
RECURSIVE GCD(_, _)
GCD(a, b) == IF b = 0 THEN a ELSE GCD(b, a % b)

RNorm(x) ==
    LET g == GCD(x[1], x[2])
    IN  IF x[1] = 0 THEN <<0, 1>> ELSE <<x[1] \div g, x[2] \div g>>

R(n) == <<n, 1>>

RMul(x, y) ==
    LET a == RNorm(x)
        b == RNorm(y)
        g1 == GCD(a[1], b[2])
        g2 == GCD(b[1], a[2])
    IN  IF a[1] = 0 \/ b[1] = 0 THEN <<0, 1>>
        ELSE <<(a[1] \div g1) * (b[1] \div g2), (a[2] \div g2) * (b[2] \div g1)>>

\* Defined for a non-zero divisor only; the callers raise ZeroDivisionError first.
RDiv(x, y) == RMul(x, <<y[2], y[1]>>)

RGt(x, y) == x[1] * y[2] > y[1] * x[2]

RECURSIVE RPow(_, _)
RPow(x, n) ==
    IF n = 0 THEN <<1, 1>>
    ELSE IF n < 0 THEN RPow(<<x[2], x[1]>>, -n)
    ELSE RMul(x, RPow(x, n - 1))

(***************************************************************************)
(* Units: the names the script uses, their dimensions and their sizes in   *)
(* pint's default registry (sizes in kilogram, inch and hour).             *)
(***************************************************************************)
UnitNames == {"gal", "mi", "h", "kg", "lb", "metric_ton", "yr", "month", "week"}

NoUnits == [n \in UnitNames |-> 0]

U(n) == [NoUnits EXCEPT ![n] = 1]

UMul(u, v) == [n \in UnitNames |-> u[n] + v[n]]

UDiv(u, v) == [n \in UnitNames |-> u[n] - v[n]]

Dimensionality(u) ==
    [mass   |-> u["kg"] + u["lb"] + u["metric_ton"],
     length |-> 3 * u["gal"] + u["mi"],
     time   |-> u["h"] + u["yr"] + u["month"] + u["week"]]

UnitFactor ==
    [gal |-> <<231, 1>>, mi |-> <<63360, 1>>, h |-> <<1, 1>>,
     kg |-> <<1, 1>>, lb |-> <<45359237, 100000000>>, metric_ton |-> <<1000, 1>>,
     yr |-> <<8766, 1>>, month |-> <<1461, 2>>, week |-> <<168, 1>>]

RECURSIVE FactorOver(_, _)
FactorOver(u, names) ==
    IF names = {} THEN <<1, 1>>
    ELSE LET n == CHOOSE x \in names : TRUE
         IN  RMul(RPow(UnitFactor[n], u[n]), FactorOver(u, names \ {n}))

Factor(u) == FactorOver(u, {n \in UnitNames : u[n] # 0})

(***************************************************************************)
(* Quantities and their operations; an operation that can raise returns    *)
(* [exc, val] with exc = "none" when it returns normally.                  *)
(***************************************************************************)
Q(m, u) == [m |-> RNorm(m), u |-> u]

NoQ == Q(<<0, 1>>, NoUnits)

Ok(v) == [exc |-> "none", val |-> v]

Raise(e) == [exc |-> e, val |-> NoQ]

QMul(a, b) == Q(RMul(a.m, b.m), UMul(a.u, b.u))

QDiv(a, b) ==
    IF b.m[1] = 0 THEN Raise("ZeroDivisionError")
    ELSE Ok(Q(RDiv(a.m, b.m), UDiv(a.u, b.u)))

QTo(q, target) ==
    IF Dimensionality(q.u) # Dimensionality(target) THEN Raise("DimensionalityError")
    ELSE Ok(Q(RMul(q.m, Factor(UDiv(q.u, target))), target))

(***************************************************************************)
(* Constants of the script.                                                *)
(***************************************************************************)
KG_CO2_PER_GAL_JP8 == Q(<<39, 4>>, UDiv(U("kg"), U("gal")))

JP8_DENSITY == Q(<<27, 4>>, UDiv(U("lb"), U("gal")))

KG_CO2_GAL == Q(<<89, 10>>, UDiv(U("kg"), U("gal")))

GALLONS_PER_YEAR_DRIVING == Q(R(489), UDiv(U("gal"), U("yr")))

\* Line 61 for a yearly fuel consumption g; the script's own is GALLONS_PER_YEAR_DRIVING.
DrivingReference(g) == QTo(QMul(KG_CO2_GAL, g), UDiv(U("metric_ton"), U("yr"))).val

\* Faulty variant: the out-and-back factor 2 of line 36 is left out.
calculate_co2_per_hour_one_way(fuel_cap, combat_range, cruise_speed) ==
    LET per_mile == QDiv(fuel_cap, combat_range)
    IN  IF per_mile.exc # "none" THEN per_mile
        ELSE Ok(QMul(QMul(per_mile.val, cruise_speed), KG_CO2_PER_GAL_JP8))

\* Faulty variant: a zero cruise_speed is refused as a division by zero.
calculate_co2_per_hour_speed_checked(fuel_cap, combat_range, cruise_speed) ==
    LET per_mile == QDiv(fuel_cap, QMul(Q(R(2), NoUnits), combat_range))
    IN  IF per_mile.exc # "none" THEN per_mile
        ELSE IF cruise_speed.m[1] = 0 THEN Raise("ZeroDivisionError")
        ELSE Ok(QMul(QMul(per_mile.val, cruise_speed), KG_CO2_PER_GAL_JP8))

calculate_co2_per_hour(fuel_cap, combat_range, cruise_speed) ==
    LET per_mile == QDiv(fuel_cap, QMul(Q(R(2), NoUnits), combat_range))
    IN  IF per_mile.exc # "none" THEN per_mile
        ELSE Ok(QMul(QMul(per_mile.val, cruise_speed), KG_CO2_PER_GAL_JP8))

PlaneCharacteristics(name, fuel_cap, combat_range, cruise_speed, mission_length) ==
    [name |-> name, fuel_cap |-> fuel_cap, combat_range |-> combat_range,
     cruise_speed |-> cruise_speed, mission_length |-> mission_length]

CO2Emissions(co2_hour, co2_mission, co2_comparison) ==
    [co2_per_hour |-> co2_hour, co2_per_mission |-> co2_mission,
     co2_comparison |-> co2_comparison]

NoEmissions == CO2Emissions(NoQ, NoQ, NoQ)

\* Faulty variant: the comparison divides the hourly instead of the mission emissions.
ComputeEmissionsHourlyRatio(plane, driving) ==
    LET per_hour == calculate_co2_per_hour(plane.fuel_cap, plane.combat_range,
                                           plane.cruise_speed)
        co2_hour == IF per_hour.exc # "none" THEN per_hour
                    ELSE QTo(per_hour.val, UDiv(U("metric_ton"), U("h")))
        co2_mission == QMul(co2_hour.val, plane.mission_length)
        co2_comparison == QDiv(co2_hour.val, driving)
    IN  IF co2_hour.exc # "none" THEN [exc |-> co2_hour.exc, val |-> NoEmissions]
        ELSE IF co2_comparison.exc # "none"
             THEN [exc |-> co2_comparison.exc, val |-> NoEmissions]
        ELSE [exc |-> "none",
              val |-> CO2Emissions(co2_hour.val, co2_mission, co2_comparison.val)]

\* Lines 65-71: the three results of one plane, or the exception raised on the way.
ComputeEmissions(plane, driving) ==
    LET per_hour == calculate_co2_per_hour(plane.fuel_cap, plane.combat_range,
                                           plane.cruise_speed)
        co2_hour == IF per_hour.exc # "none" THEN per_hour
                    ELSE QTo(per_hour.val, UDiv(U("metric_ton"), U("h")))
        co2_mission == QMul(co2_hour.val, plane.mission_length)
        co2_comparison == QDiv(co2_mission, driving)
    IN  IF co2_hour.exc # "none" THEN [exc |-> co2_hour.exc, val |-> NoEmissions]
        ELSE IF co2_comparison.exc # "none"
             THEN [exc |-> co2_comparison.exc, val |-> NoEmissions]
        ELSE [exc |-> "none",
              val |-> CO2Emissions(co2_hour.val, co2_mission, co2_comparison.val)]

(***************************************************************************)
(* The results dictionary: a sequence of [key, value] in insertion order.  *)
(***************************************************************************)
DictKeys(d) == [k \in 1..Len(d) |-> d[k].key]

DictValues(d) == [k \in 1..Len(d) |-> d[k].value]

DictHas(d, key) == \E k \in 1..Len(d) : d[k].key = key

DictGet(d, key) == d[CHOOSE k \in 1..Len(d) : d[k].key = key].value

\* Faulty variant: a new key goes to the front of the iteration order.
DictSetFront(d, key, value) ==
    IF DictHas(d, key)
    THEN [k \in 1..Len(d) |-> IF d[k].key = key THEN [key |-> key, value |-> value]
                                                ELSE d[k]]
    ELSE <<[key |-> key, value |-> value]>> \o d

\* Faulty variant: a key that is present keeps its value (dict.setdefault).
DictSetDefault(d, key, value) ==
    IF DictHas(d, key) THEN d ELSE Append(d, [key |-> key, value |-> value])

DictSet(d, key, value) ==
    IF DictHas(d, key)
    THEN [k \in 1..Len(d) |-> IF d[k].key = key THEN [key |-> key, value |-> value]
                                                ELSE d[k]]
    ELSE Append(d, [key |-> key, value |-> value])

(***************************************************************************)
(* Lines 75-80: the branches of the if/elif/else entered for a magnitude,  *)
(* and the unit the comparison is printed in.                              *)
(***************************************************************************)
\* Faulty variant: the comparisons of lines 75 and 77 are >= instead of >.
ComparisonBranchesNonStrict(m) ==
    {b \in {"yr", "month", "week"} :
        \/ b = "yr" /\ ~RGt(<<1, 1>>, m)
        \/ b = "month" /\ RGt(<<1, 1>>, m) /\ ~RGt(<<1, 12>>, m)
        \/ b = "week" /\ RGt(<<1, 1>>, m) /\ RGt(<<1, 12>>, m)}

ComparisonBranches(m) ==
    {b \in {"yr", "month", "week"} :
        \/ b = "yr" /\ RGt(m, <<1, 1>>)
        \/ b = "month" /\ ~RGt(m, <<1, 1>>) /\ RGt(m, <<1, 12>>)
        \/ b = "week" /\ ~RGt(m, <<1, 1>>) /\ ~RGt(m, <<1, 12>>)}

ComparisonUnit(m) == CHOOSE b \in ComparisonBranches(m) : TRUE

PrintedComparison(co2_comparison) ==
    IF ComparisonUnit(co2_comparison.m) = "yr" THEN Ok(co2_comparison)
    ELSE QTo(co2_comparison, U(ComparisonUnit(co2_comparison.m)))

plot_co2_emissions(data, title, ylabel, attribute) ==
    [plane_names |-> DictKeys(data),
     emissions |-> [k \in 1..Len(data) |-> DictValues(data)[k][attribute].m],
     title |-> title, ylabel |-> ylabel]

(***************************************************************************)
(* Inputs.  The script's list of planes and its yearly fuel consumption    *)
(* are literals; the model runs the script on other lists as well.  In     *)
(* PlaneSet each field is a quantity of the documented unit, a zero, or a  *)
(* bare number.  Fleet is the part of PlaneSet with at most one such       *)
(* defect, on a plane of each comparison unit.  A run processes a list of  *)
(* up to MaxPlanes planes of Fleet, or one plane of PlaneSet, with the     *)
(* yearly consumption either the script's or zero.                          *)
(***************************************************************************)
Names == {"B-52", "F-35"}

Gallons(n) == Q(R(n), U("gal"))

\* Line 46: a fuel load given by weight.
Pounds(n) == QDiv(Q(R(n), U("lb")), JP8_DENSITY).val

Miles(n) == Q(R(n), U("mi"))

MilesPerHour(n) == Q(R(n), UDiv(U("mi"), U("h")))

Hours(n) == Q(R(n), U("h"))

Bare(n) == Q(R(n), NoUnits)

FuelCaps == {Gallons(1000), Pounds(27), Bare(1000)}

CombatRanges == {Miles(100), Miles(0), Bare(100)}

CruiseSpeeds == {MilesPerHour(500), MilesPerHour(0), Bare(500)}

MissionLengths == {Hours(2), Hours(30), Bare(2)}

PlaneSet ==
    {PlaneCharacteristics(n, f, r, s, l) :
        n \in Names, f \in FuelCaps, r \in CombatRanges, s \in CruiseSpeeds,
        l \in MissionLengths}

Fleet ==
    UNION {{PlaneCharacteristics(n, Gallons(1000), Miles(100), MilesPerHour(500), Hours(2)),
            PlaneCharacteristics(n, Pounds(27), Miles(100), MilesPerHour(500), Hours(30)),
            PlaneCharacteristics(n, Pounds(27), Miles(100), MilesPerHour(500), Hours(2)),
            PlaneCharacteristics(n, Gallons(1000), Miles(100), MilesPerHour(0), Hours(2)),
            PlaneCharacteristics(n, Gallons(1000), Miles(0), MilesPerHour(500), Hours(2)),
            PlaneCharacteristics(n, Bare(1000), Miles(100), MilesPerHour(500), Hours(2)),
            PlaneCharacteristics(n, Gallons(1000), Miles(100), MilesPerHour(500), Bare(2)),
            PlaneCharacteristics(n, Pounds(27), Miles(100), MilesPerHour(500), Bare(2))} :
           n \in Names}

YearlyConsumptions == {GALLONS_PER_YEAR_DRIVING, Q(R(0), UDiv(U("gal"), U("yr")))}

PlaneLists == UNION {[1..n -> Fleet] : n \in 0..MaxPlanes} \cup [1..1 -> PlaneSet]

Event(op, at) == [op |-> op, at |-> at]

Init ==
    /\ planes \in PlaneLists
    /\ \E g \in YearlyConsumptions : CO2_TONS_YEAR_DRIVING = DrivingReference(g)
    /\ plane_emissions = <<>>
    /\ pc = "loop"
    /\ i = 1
    /\ console = <<>>
    /\ charts = <<>>
    /\ exc = "none"
    /\ events = <<>>
    /\ args = <<>>
    /\ ret = <<>>

(***************************************************************************)
(* The main loop, lines 64-80, in two steps per plane.                     *)
(***************************************************************************)
\* Faulty variant: an exception is caught and the loop goes on with the next plane.
StoreEmissionsSkipping ==
    /\ pc = "loop"
    /\ i <= Len(planes)
    /\ LET plane == planes[i]
           r == ComputeEmissions(plane, CO2_TONS_YEAR_DRIVING)
       IN  IF r.exc # "none"
           THEN /\ exc' = r.exc
                /\ pc' = "loop"
                /\ i' = i + 1
                /\ events' = Append(events, Event("compute", i))
                /\ UNCHANGED plane_emissions
           ELSE /\ plane_emissions' = DictSet(plane_emissions, plane.name, r.val)
                /\ pc' = "print"
                /\ events' = events \o <<Event("compute", i), Event("store", i)>>
                /\ UNCHANGED <<exc, i>>
    /\ UNCHANGED <<planes, CO2_TONS_YEAR_DRIVING, console, charts, args, ret>>

\* Lines 65-71: compute the plane's results and store them under its name.
StoreEmissions ==
    /\ pc = "loop"
    /\ i <= Len(planes)
    /\ LET plane == planes[i]
           r == ComputeEmissions(plane, CO2_TONS_YEAR_DRIVING)
       IN  IF r.exc # "none"
           THEN /\ exc' = r.exc
                /\ pc' = "error"
                /\ events' = Append(events, Event("compute", i))
                /\ UNCHANGED plane_emissions
           ELSE /\ plane_emissions' = DictSet(plane_emissions, plane.name, r.val)
                /\ pc' = "print"
                /\ events' = events \o <<Event("compute", i), Event("store", i)>>
                /\ UNCHANGED exc
    /\ UNCHANGED <<planes, CO2_TONS_YEAR_DRIVING, i, console, charts, args, ret>>

\* Lines 74-80: print the name, then the comparison in the selected unit.
PrintComparison ==
    /\ pc = "print"
    /\ LET plane == planes[i]
           shown == PrintedComparison(DictGet(plane_emissions, plane.name).co2_comparison)
       IN  /\ console' = Append(console, [name |-> plane.name,
                                          complete |-> shown.exc = "none",
                                          q |-> shown.val])
           /\ events' = Append(events, Event("print", i))
           /\ IF shown.exc # "none"
              THEN /\ exc' = shown.exc
                   /\ pc' = "error"
                   /\ UNCHANGED i
              ELSE /\ i' = i + 1
                   /\ pc' = "loop"
                   /\ UNCHANGED exc
    /\ UNCHANGED <<planes, CO2_TONS_YEAR_DRIVING, plane_emissions, charts, args, ret>>

\* Faulty variant: the first chart is drawn from inside the loop.
PlotPerHourInLoop ==
    /\ pc = "loop"
    /\ charts' = Append(charts, plot_co2_emissions(plane_emissions,
                     "Metric Ton CO2/hr, per plane", "Metric Ton CO2/hr", "co2_per_hour"))
    /\ events' = Append(events, Event("plot", 1))
    /\ pc' = "plot_mission"
    /\ UNCHANGED <<planes, CO2_TONS_YEAR_DRIVING, plane_emissions, i, console, exc,
                   args, ret>>

\* Faulty variant: drawing the first chart pops the entries off the table.
PlotPerHourConsuming ==
    /\ pc = "loop"
    /\ i > Len(planes)
    /\ charts' = Append(charts, plot_co2_emissions(plane_emissions,
                     "Metric Ton CO2/hr, per plane", "Metric Ton CO2/hr", "co2_per_hour"))
    /\ plane_emissions' = <<>>
    /\ events' = Append(events, Event("plot", 1))
    /\ pc' = "plot_mission"
    /\ UNCHANGED <<planes, CO2_TONS_YEAR_DRIVING, i, console, exc, args, ret>>

\* Line 104, reached when the loop is exhausted.
PlotPerHour ==
    /\ pc = "loop"
    /\ i > Len(planes)
    /\ charts' = Append(charts, plot_co2_emissions(plane_emissions,
                     "Metric Ton CO2/hr, per plane", "Metric Ton CO2/hr", "co2_per_hour"))
    /\ events' = Append(events, Event("plot", 1))
    /\ pc' = "plot_mission"
    /\ UNCHANGED <<planes, CO2_TONS_YEAR_DRIVING, plane_emissions, i, console, exc,
                   args, ret>>

\* Line 107.
PlotPerMission ==
    /\ pc = "plot_mission"
    /\ charts' = Append(charts, plot_co2_emissions(plane_emissions,
                     "Metric Ton CO2 per mission, per plane",
                     "Metric Ton CO2 per mission", "co2_per_mission"))
    /\ events' = Append(events, Event("plot", 2))
    /\ pc' = "done"
    /\ UNCHANGED <<planes, CO2_TONS_YEAR_DRIVING, plane_emissions, i, console, exc,
                   args, ret>>

Next == StoreEmissions \/ PrintComparison \/ PlotPerHour \/ PlotPerMission

Spec == Init /\ [][Next]_vars

(***************************************************************************)
(* calculate_co2_per_hour as a function: one call on (f gal, r mi, s mi/h) *)
(* and one with each argument in turn scaled by k = kn/kd.                 *)
(***************************************************************************)
Idle ==
    /\ planes = <<>>
    /\ CO2_TONS_YEAR_DRIVING = DrivingReference(GALLONS_PER_YEAR_DRIVING)
    /\ plane_emissions = <<>>
    /\ i = 1
    /\ console = <<>>
    /\ charts = <<>>
    /\ exc = "none"
    /\ events = <<>>

InitCalc ==
    /\ Idle
    /\ pc = "call"
    /\ args \in [f : 1..MaxMag, r : 1..MaxMag, s : 1..MaxMag,
                 kn : 1..MaxScale, kd : 1..MaxScale]
    /\ ret = <<>>

Scaled(q, kn, kd) == Q(RMul(q.m, <<kn, kd>>), q.u)

CallCalculate ==
    /\ pc = "call"
    /\ LET f == Gallons(args.f)
           r == Miles(args.r)
           s == MilesPerHour(args.s)
       IN  ret' = [base |-> calculate_co2_per_hour(f, r, s),
                   f |-> calculate_co2_per_hour(Scaled(f, args.kn, args.kd), r, s),
                   r |-> calculate_co2_per_hour(f, Scaled(r, args.kn, args.kd), s),
                   s |-> calculate_co2_per_hour(f, r, Scaled(s, args.kn, args.kd))]
    /\ pc' = "returned"
    /\ UNCHANGED <<planes, CO2_TONS_YEAR_DRIVING, plane_emissions, i, console, charts,
                   exc, events, args>>

SpecCalc == InitCalc /\ [][CallCalculate]_vars

(***************************************************************************)
(* The if/elif/else of lines 75-80 as a function of the magnitude          *)
(* num/den > 0 of co2_comparison.                                          *)
(***************************************************************************)
InitSelect ==
    /\ Idle
    /\ pc = "call"
    /\ args \in [num : 1..MaxNum, den : 1..MaxDen]
    /\ ret = {}

CallComparison ==
    /\ pc = "call"
    /\ ret' = ComparisonBranches(RNorm(<<args.num, args.den>>))
    /\ pc' = "returned"
    /\ UNCHANGED <<planes, CO2_TONS_YEAR_DRIVING, plane_emissions, i, console, charts,
                   exc, events, args>>

SpecSelect == InitSelect /\ [][CallComparison]_vars

(***************************************************************************)
(* Vocabulary of the properties.                                           *)
(***************************************************************************)
Computed(k) == \E j \in 1..Len(events) : events[j] = Event("compute", k)

Stored(k) == \E j \in 1..Len(events) : events[j] = Event("store", k)

Printed(k) == \E j \in 1..Len(events) : events[j] = Event("print", k)

RaisedAt(k, e) == exc = e /\ pc = "error" /\ i = k

LoopFinished == pc \in {"plot_mission", "done"} \/ (pc = "loop" /\ i > Len(planes))

UniqueNames ==
    \A a, b \in 1..Len(planes) : planes[a].name = planes[b].name => a = b

Dimension(mass, length, time) == [mass |-> mass, length |-> length, time |-> time]

\* fuel_cap, combat_range and cruise_speed are a volume, a length and a speed.
ValidRateDims(p) ==
    /\ Dimensionality(p.fuel_cap.u) = Dimension(0, 3, 0)
    /\ Dimensionality(p.combat_range.u) = Dimension(0, 1, 0)
    /\ Dimensionality(p.cruise_speed.u) = Dimension(0, 1, -1)

ValidDims(p) == ValidRateDims(p) /\ Dimensionality(p.mission_length.u) = Dimension(0, 0, 1)

FirstIndex(name) ==
    CHOOSE k \in 1..Len(planes) :
        planes[k].name = name /\ \A j \in 1..(k - 1) : planes[j].name # name

LastIndex(name) ==
    CHOOSE k \in 1..Len(planes) :
        planes[k].name = name /\ \A j \in (k + 1)..Len(planes) : planes[j].name # name

(***************************************************************************)
(* C1.  The if/elif/else on the magnitude r = num/den > 0 enters exactly   *)
(* one branch: years when r > 1, months when 1/12 < r <= 1, weeks when     *)
(* r <= 1/12; so r = 1 gives months and r = 1/12 gives weeks.              *)
(***************************************************************************)
C1_SelectionTotal ==
    pc = "returned" =>
        /\ Cardinality(ret) = 1
        /\ ret = {"yr"} <=> args.num > args.den
        /\ ret = {"month"} <=> (args.num <= args.den /\ 12 * args.num > args.den)
        /\ ret = {"week"} <=> 12 * args.num <= args.den

C1_Witness ==
    /\ pc = "returned"
    /\ args.num = 1
    /\ args.den = 12
    /\ ret = {"week"}

(***************************************************************************)
(* C2.  For positive f, r, s the call returns (f / (2 r)) * s * 9.75 in    *)
(* kg/h, that is 39 f s / (8 r); scaling f or s by k scales the result by  *)
(* k and scaling r by k scales it by 1/k.                                  *)
(***************************************************************************)
C2_FormulaAndScaling ==
    pc = "returned" =>
        LET b == ret.base.val.m
        IN  /\ \A c \in {"base", "f", "r", "s"} :
                   /\ ret[c].exc = "none"
                   /\ ret[c].val.u = UDiv(U("kg"), U("h"))
            /\ b[1] * (8 * args.r) = (39 * args.f * args.s) * b[2]
            /\ ret.f.val.m[1] * args.kd * b[2] = args.kn * b[1] * ret.f.val.m[2]
            /\ ret.s.val.m[1] * args.kd * b[2] = args.kn * b[1] * ret.s.val.m[2]
            /\ ret.r.val.m[1] * args.kn * b[2] = args.kd * b[1] * ret.r.val.m[2]

C2_Witness ==
    /\ pc = "returned"
    /\ args = [f |-> 3, r |-> 2, s |-> 4, kn |-> 3, kd |-> 2]
    /\ ret.base.val.m = <<117, 4>>
    /\ ret.f.val.m = <<351, 8>>
    /\ ret.r.val.m = <<39, 2>>

(***************************************************************************)
(* C3.  With unique names, when the main loop has finished the table holds *)
(* one entry per plane, in input order, each the result computed from that *)
(* plane's own characteristics and the driving reference alone.            *)
(***************************************************************************)
C3_ResultsFollowInput ==
    (UniqueNames /\ LoopFinished) =>
        /\ Len(plane_emissions) = Len(planes)
        /\ \A k \in 1..Len(planes) :
               /\ DictKeys(plane_emissions)[k] = planes[k].name
               /\ ComputeEmissions(planes[k], CO2_TONS_YEAR_DRIVING).exc = "none"
               /\ DictValues(plane_emissions)[k]
                      = ComputeEmissions(planes[k], CO2_TONS_YEAR_DRIVING).val

C3_Witness ==
    /\ pc = "plot_mission"
    /\ Len(planes) = 2
    /\ planes[1].name = "F-35"
    /\ planes[2].name = "B-52"
    /\ DictKeys(plane_emissions) = <<"F-35", "B-52">>
    /\ DictValues(plane_emissions)[1] # DictValues(plane_emissions)[2]

(***************************************************************************)
(* C4, as claimed: nothing is printed and no chart is rendered before the  *)
(* results of every plane of the list have been stored.                    *)
(***************************************************************************)
C4_OutputAfterAllStored ==
    (console # <<>> \/ charts # <<>>) => \A k \in 1..Len(planes) : Stored(k)

(***************************************************************************)
(* C4, amended: no chart is rendered before the results of every plane     *)
(* have been stored; a plane's console line is printed after its own       *)
(* result has been stored, and before the next plane is computed.          *)
(***************************************************************************)
C4_ChartsAfterAllPrintsInterleaved ==
    /\ charts # <<>> => \A k \in 1..Len(planes) : Stored(k)
    /\ Len(console) = Cardinality({k \in 1..Len(planes) : Printed(k)})
    /\ \A j \in 1..Len(events) :
           /\ events[j].op = "print" =>
                  \E h \in 1..(j - 1) : events[h] = Event("store", events[j].at)
           /\ events[j].op = "compute" =>
                  \A k \in 1..(events[j].at - 1) :
                      \E h \in 1..(j - 1) : events[h] = Event("print", k)

C4_Witness ==
    /\ Len(planes) = 2
    /\ Len(console) = 1
    /\ pc = "loop"
    /\ i = 2
    /\ ~Computed(2)

(***************************************************************************)
(* C5, as claimed: a plane one of whose four inputs lacks the required     *)
(* dimension makes the computation fail; no result of it is stored or      *)
(* printed.                                                                *)
(***************************************************************************)
C5_BadDimensionFails ==
    \A k \in 1..Len(planes) :
        (~ValidDims(planes[k]) /\ Computed(k)) =>
            /\ exc # "none"
            /\ i = k
            /\ ~Stored(k)
            /\ ~Printed(k)

(***************************************************************************)
(* C6, as claimed: a plane with valid dimensions whose combat_range is     *)
(* zero, whose cruise_speed is zero, or that is compared with a zero       *)
(* driving reference ends the run with ZeroDivisionError and gets no       *)
(* result.                                                                 *)
(***************************************************************************)
C6_ZeroRaises ==
    \A k \in 1..Len(planes) :
        (/\ Computed(k)
         /\ ValidDims(planes[k])
         /\ \/ planes[k].combat_range.m[1] = 0
            \/ planes[k].cruise_speed.m[1] = 0
            \/ CO2_TONS_YEAR_DRIVING.m[1] = 0)
        => (RaisedAt(k, "ZeroDivisionError") /\ ~Stored(k))

(***************************************************************************)
(* C6, amended: ZeroDivisionError is raised, and no result stored, for a   *)
(* plane whose combat_range is zero, and for a plane with a non-zero       *)
(* combat_range and valid fuel_cap, combat_range and cruise_speed          *)
(* dimensions when the driving reference is zero.  A zero cruise_speed     *)
(* raises nothing: with otherwise valid inputs the plane's result is       *)
(* stored and printed.                                                     *)
(***************************************************************************)
C6_ZeroRangeOrReferenceRaises ==
    \A k \in 1..Len(planes) :
        Computed(k) =>
            /\ planes[k].combat_range.m[1] = 0 =>
                   (RaisedAt(k, "ZeroDivisionError") /\ ~Stored(k))
            /\ (/\ planes[k].combat_range.m[1] # 0
                /\ ValidRateDims(planes[k])
                /\ CO2_TONS_YEAR_DRIVING.m[1] = 0) =>
                   (RaisedAt(k, "ZeroDivisionError") /\ ~Stored(k))
            /\ (/\ planes[k].cruise_speed.m[1] = 0
                /\ planes[k].combat_range.m[1] # 0
                /\ ValidDims(planes[k])
                /\ CO2_TONS_YEAR_DRIVING.m[1] # 0) =>
                   /\ Stored(k)
                   /\ ~(exc # "none" /\ i = k)
                   /\ i > k => Printed(k)

C6_Witness ==
    /\ pc = "done"
    /\ Len(planes) = 1
    /\ planes[1].cruise_speed.m[1] = 0
    /\ ValidDims(planes[1])
    /\ Printed(1)
    /\ console[1].complete
    /\ exc = "none"

(***************************************************************************)
(* C7, as claimed: a run that completes without error leaves one entry per *)
(* plane of the list (two planes of one name would have raised).           *)
(***************************************************************************)
C7_OneEntryPerPlane ==
    pc = "done" => Len(plane_emissions) = Len(planes)

(***************************************************************************)
(* C7, amended: no DuplicateName error exists; the result of a later plane *)
(* replaces the result stored under the same name, so when the loop has    *)
(* finished the table holds one entry per distinct name, in the order of   *)
(* the names' first occurrences, each the result of the last plane of that *)
(* name.                                                                   *)
(***************************************************************************)
C7_LastPlaneOfNameWins ==
    /\ exc \in {"none", "ZeroDivisionError", "DimensionalityError"}
    /\ LoopFinished =>
           /\ Len(plane_emissions) = Cardinality({planes[k].name : k \in 1..Len(planes)})
           /\ \A a, b \in 1..Len(plane_emissions) :
                  a < b => FirstIndex(plane_emissions[a].key)
                               < FirstIndex(plane_emissions[b].key)
           /\ \A k \in 1..Len(planes) :
                  /\ DictHas(plane_emissions, planes[k].name)
                  /\ DictGet(plane_emissions, planes[k].name)
                         = ComputeEmissions(planes[LastIndex(planes[k].name)],
                                            CO2_TONS_YEAR_DRIVING).val

C7_Witness ==
    /\ pc = "done"
    /\ Len(planes) = 2
    /\ planes[1].name = planes[2].name
    /\ Len(plane_emissions) = 1
    /\ plane_emissions[1].value
           # ComputeEmissions(planes[1], CO2_TONS_YEAR_DRIVING).val

C9_FirstErrorAborts ==
    /\ [](exc # "none" =>
              /\ pc = "error"
              /\ charts = <<>>
              /\ \A j \in 1..Len(events) : events[j].op # "plot" /\ events[j].at <= i
              /\ Len(plane_emissions) <= i
              /\ Len(console) <= i)
    /\ [][exc # "none" => UNCHANGED vars]_vars

C9_Witness ==
    /\ exc # "none"
    /\ i = 1
    /\ Len(planes) = 2
    /\ ~Computed(2)
    /\ charts = <<>>

(***************************************************************************)
(* C10.  Once the main loop has finished the table never changes, and each *)
(* chart shows the names of the table in its iteration order with the      *)
(* magnitudes of its attribute of the table's values, in the same order.   *)
(***************************************************************************)
C10_TableOnlyRead ==
    /\ [][LoopFinished => plane_emissions' = plane_emissions]_vars
    /\ [](\A c \in 1..Len(charts) :
              /\ LoopFinished
              /\ charts[c].plane_names = DictKeys(plane_emissions)
              /\ charts[c].emissions =
                     [k \in 1..Len(plane_emissions) |->
                         plane_emissions[k].value[
                             IF c = 1 THEN "co2_per_hour" ELSE "co2_per_mission"].m])
    /\ [](pc = "done" => Len(charts) = 2)

C10_Witness ==
    /\ pc = "done"
    /\ Len(charts) = 2
    /\ Len(plane_emissions) = 2
    /\ charts[1].plane_names = charts[2].plane_names
    /\ charts[1].emissions # charts[2].emissions

====
